---- MODULE Spec2Model ----
(***************************************************************************)
(* A model of the Schedule-Assistant scheduling core:                      *)
(*   - TaskOptimizerAgent   (dependency ordering, load distribution),      *)
(*   - CalendarCheckingAgent (free intervals, slot search),                *)
(*   - SchedulerAgent        (the task store and the per-agent schedule),  *)
(*   - SchedulerOrchestrator (the operations built on the three).          *)
(* Task ids are the numbers n of the code's "task_<n>" strings; times are  *)
(* counted in abstract ticks of UTC time.                                  *)
(***************************************************************************)
EXTENDS Integers, Sequences, FiniteSets, TLC

\* ------------------------------------------------------------------ bounds
\* Number of distinct task ids the inputs are drawn from.
MaxTasks == 3
\* Largest number of dependency edges of an input of the dependency resolver.
MaxEdges == 3
\* Times run over 0..MaxTime ticks.
MaxTime == 5
\* Largest number of events on the external calendar.
MaxEvents == 2
\* Ticks per calendar day (the code's 24 hours, scaled down).
DayLen == 2
\* Ticks of the look-ahead of find_next_available_slot (the code's 7 days,
\* scaled down).
LookAhead == 3
\* Largest duration asked of find_next_available_slot, in ticks.
MaxDuration == 3
\* Number of agent ids the rosters are drawn from.
MaxAgents == 2
\* Largest priority of a task handed to suggest_task_redistribution.
MaxWeight == 5
\* Largest number of tasks in the store.
MaxStored == 2
\* Priorities of stored tasks run over 0..MaxPriority.
MaxPriority == 1
\* Due dates of stored tasks run over 1..MaxDue.
MaxDue == 2
\* Largest length of the notification queue.
MaxQueue == 1
\* Largest length the queue has when assign_and_optimize_tasks has added
\* its notifications.
MaxPending == 4

\* ----------------------------------------------------- program constants
\* The number standing for the empty string of Task.assigned_to.
NoAgent == 0
\* The number standing for related_task = None of a notification.
NoTask == 0
\* The number standing for None in Task.scheduled_start and scheduled_end.
NoTime == -1

VARIABLES
    order_in,       \* optimize_task_sequence: the task list passed in
    order_out,      \* optimize_task_sequence: what the call produced
    calendar,       \* the external calendar: its events, by start time
    cal_start,      \* get_availability / find_next_available_slot: start
    cal_end,        \* get_availability: end_time
    cal_duration,   \* find_next_available_slot: duration
    avail_out,      \* what get_availability returned
    slot_out,       \* what find_next_available_slot returned
    dist_tasks,     \* suggest_task_redistribution: tasks
    dist_agents,    \* suggest_task_redistribution: agents
    sorted_tasks,   \* suggest_task_redistribution: sorted_tasks
    dist_i,         \* suggest_task_redistribution: position in sorted_tasks
    workload,       \* suggest_task_redistribution: workload
    dist_pc,        \* suggest_task_redistribution: where the call is
    tasks,          \* SchedulerAgent.tasks: the values, by task id
    task_keys,      \* SchedulerAgent.tasks: the keys, in insertion order
    agents,         \* SchedulerAgent.agents
    current_schedule,   \* SchedulerAgent.current_schedule
    notification_queue, \* NotificationAgent.notification_queue
    ret             \* the last call made and what it returned

orderVars == <<order_in, order_out>>
calVars == <<calendar, cal_start, cal_end, cal_duration, avail_out, slot_out>>
distVars == <<dist_tasks, dist_agents, sorted_tasks, dist_i, workload, dist_pc>>
storeVars == <<tasks, task_keys, agents, current_schedule, notification_queue, ret>>
vars == <<orderVars, calVars, distVars, storeVars>>

\* ----------------------------------------------------------------- helpers
Range(s) == {s[i] : i \in 1..Len(s)}

Reverse(s) == [i \in 1..Len(s) |-> s[Len(s) + 1 - i]]

Min(S) == CHOOSE x \in S : \A y \in S : x <= y

\* The elements of a finite set of integers as an ascending list.
RECURSIVE SetToSeq(_)
SetToSeq(S) == IF S = {} THEN <<>> ELSE <<Min(S)>> \o SetToSeq(S \ {Min(S)})

\* The index of the first occurrence of x in s (0 when absent).
IndexOf(s, x) == IF x \in Range(s) THEN Min({i \in 1..Len(s) : s[i] = x}) ELSE 0

\* The lists without repetition over a finite set (every insertion order).
RECURSIVE Perms(_)
Perms(S) ==
    IF S = {} THEN {<<>>}
    ELSE UNION {{<<x>> \o p : p \in Perms(S \ {x})} : x \in S}

TaskIds == 1..MaxTasks

\* ------------------------------------------------------ TaskOptimizerAgent
\* A dict is modelled by its keys in insertion order and its values.
\* graph[task.id] = task.dependencies, for each task in turn: a repeated id
\* keeps its first position and takes the last value.
RECURSIVE BuildDependencyGraph(_)
BuildDependencyGraph(task_list) ==
    IF task_list = <<>> THEN [keys |-> <<>>, deps |-> <<>>]
    ELSE LET n == Len(task_list)
             g == BuildDependencyGraph(SubSeq(task_list, 1, n - 1))
             t == task_list[n]
         IN [keys |-> IF t.id \in Range(g.keys) THEN g.keys ELSE Append(g.keys, t.id),
             deps |-> [k \in Range(g.keys) \cup {t.id} |->
                          IF k = t.id THEN t.dependencies ELSE g.deps[k]]]

\* graph.get(task_id, [])
GraphGet(graph, task_id) ==
    IF task_id \in DOMAIN graph.deps THEN graph.deps[task_id] ELSE <<>>

RECURSIVE Visit(_, _, _), VisitDeps(_, _, _, _)

\* visit() with the marking of the two sets merged into one "visited" set
\* that is filled on entry: a cycle then goes unnoticed.
VisitNoPathSet(graph, st, task_id) ==
    IF st.raised \/ task_id \in st.visited THEN st
    ELSE LET s1 == [st EXCEPT !.visited = @ \cup {task_id}]
             s2 == VisitDeps(graph, s1, GraphGet(graph, task_id), 1)
         IN [s2 EXCEPT !.order = Append(@, task_id)]

\* The nested visit(task_id); st holds visited, temp, order and whether the
\* ValueError has been raised (it propagates through every frame).
Visit(graph, st, task_id) ==
    IF st.raised THEN st
    ELSE IF task_id \in st.temp THEN [st EXCEPT !.raised = TRUE]
    ELSE IF task_id \in st.visited THEN st
    ELSE LET s1 == [st EXCEPT !.temp = @ \cup {task_id}]
             s2 == VisitDeps(graph, s1, GraphGet(graph, task_id), 1)
         IN IF s2.raised THEN s2
            ELSE [s2 EXCEPT !.temp = @ \ {task_id},
                            !.visited = @ \cup {task_id},
                            !.order = Append(@, task_id)]

\* for dep in graph.get(task_id, []): visit(dep)
VisitDeps(graph, st, deps, i) ==
    IF i > Len(deps) \/ st.raised THEN st
    ELSE VisitDeps(graph, Visit(graph, st, deps[i]), deps, i + 1)

\* for task_id in graph: if task_id not in visited: visit(task_id)
RECURSIVE VisitRoots(_, _, _)
VisitRoots(graph, st, i) ==
    IF i > Len(graph.keys) \/ st.raised THEN st
    ELSE IF graph.keys[i] \in st.visited THEN VisitRoots(graph, st, i + 1)
    ELSE VisitRoots(graph, Visit(graph, st, graph.keys[i]), i + 1)

\* _topological_sort: the reversed visiting order, or the ValueError.
TopologicalSort(graph) ==
    LET st == VisitRoots(graph,
                  [visited |-> {}, temp |-> {}, order |-> <<>>, raised |-> FALSE], 1)
    IN IF st.raised THEN [status |-> "ValueError", order |-> <<>>]
       ELSE [status |-> "ok", order |-> Reverse(st.order)]

OptimizeTaskSequence(task_list) == TopologicalSort(BuildDependencyGraph(task_list))

\* sorted(tasks, key = priority, reverse = True): a stable sort, tasks of
\* equal priority keep their order.
RECURSIVE SortByPriorityDesc(_)
SortByPriorityDesc(task_list) ==
    IF task_list = <<>> THEN <<>>
    ELSE LET n == Len(task_list)
             t == task_list[n]
             head == SortByPriorityDesc(SubSeq(task_list, 1, n - 1))
             k == Cardinality({i \in 1..Len(head) : head[i].priority >= t.priority})
         IN SubSeq(head, 1, k) \o <<t>> \o SubSeq(head, k + 1, Len(head))

\* sum(t.priority for t in tasks)
RECURSIVE SumPriority(_)
SumPriority(task_list) ==
    IF task_list = <<>> THEN 0
    ELSE task_list[1].priority + SumPriority(Tail(task_list))

\* {agent: [] for agent in agents}
EmptyWorkload(agent_list) ==
    [keys |-> agent_list, lists |-> [a \in Range(agent_list) |-> <<>>]]

\* The agent min() would pick if it took the last of the least loaded.
MinAgentLastTie(load) ==
    LET least(i) == \A j \in 1..Len(load.keys) :
                       SumPriority(load.lists[load.keys[i]])
                           <= SumPriority(load.lists[load.keys[j]])
    IN load.keys[CHOOSE i \in 1..Len(load.keys) :
                     least(i) /\ \A j \in 1..Len(load.keys) : least(j) => j <= i]

\* min(workload.items(), key = sum of priorities)[0]: the first item, in
\* the order of the dict, of least sum. The workload is not empty.
MinAgent(load) ==
    LET least(i) == \A j \in 1..Len(load.keys) :
                       SumPriority(load.lists[load.keys[i]])
                           <= SumPriority(load.lists[load.keys[j]])
    IN load.keys[CHOOSE i \in 1..Len(load.keys) :
                     least(i) /\ \A j \in 1..Len(load.keys) : least(j) => i <= j]

\* workload[min_agent].append(task)
PlaceTask(load, task) ==
    [load EXCEPT !.lists[MinAgent(load)] = Append(@, task)]

\* The loop over sorted_tasks from position i; min() of an empty workload
\* raises the ValueError.
RECURSIVE PlaceAll(_, _, _)
PlaceAll(load, task_list, i) ==
    IF i > Len(task_list) THEN [status |-> "ok", workload |-> load]
    ELSE IF load.keys = <<>> THEN [status |-> "ValueError", workload |-> load]
    ELSE PlaceAll(PlaceTask(load, task_list[i]), task_list, i + 1)

\* suggest_task_redistribution(tasks, agents)
SuggestTaskRedistribution(task_list, agent_list) ==
    PlaceAll(EmptyWorkload(agent_list), SortByPriorityDesc(task_list), 1)

\* ---------------------------------------------------------- SchedulerAgent
\* self.current_schedule = {}
EmptySchedule == [keys |-> <<>>, lists |-> <<>>]

\* add_task without the test for a stored id: the task takes the place of
\* the stored one.
AddTaskOverwriting(task_map, keys, task) ==
    [ok |-> TRUE,
     tasks |-> [k \in DOMAIN task_map \cup {task.id} |->
                   IF k = task.id THEN task ELSE task_map[k]],
     task_keys |-> IF task.id \in DOMAIN task_map THEN keys ELSE Append(keys, task.id)]

\* add_task(task) on the store (task_map, keys): whether it returned True,
\* and the store after it.
AddTaskResult(task_map, keys, task) ==
    IF task.id \in DOMAIN task_map
    THEN [ok |-> FALSE, tasks |-> task_map, task_keys |-> keys]
    ELSE [ok |-> TRUE,
          tasks |-> [k \in DOMAIN task_map \cup {task.id} |->
                        IF k = task.id THEN task ELSE task_map[k]],
          task_keys |-> Append(keys, task.id)]

\* (x.priority, x.due_date) <= (y.priority, y.due_date), as tuples compare.
KeyLE(x, y) ==
    x.priority < y.priority \/ (x.priority = y.priority /\ x.due_date <= y.due_date)

\* The key of the sort taken the other way round: (due_date, priority).
SortByDuePriority(task_map, ids) ==
    LET LE(x, y) == x.due_date < y.due_date
                       \/ (x.due_date = y.due_date /\ x.priority <= y.priority)
        RECURSIVE Sorted(_)
        Sorted(l) ==
            IF l = <<>> THEN <<>>
            ELSE LET n == Len(l)
                     head == Sorted(SubSeq(l, 1, n - 1))
                     k == Cardinality({i \in 1..Len(head) :
                                          LE(task_map[head[i]], task_map[l[n]])})
                 IN SubSeq(head, 1, k) \o <<l[n]>> \o SubSeq(head, k + 1, Len(head))
    IN Sorted(ids)

\* agent_tasks.sort(key = lambda x: (x.priority, x.due_date)) on a list of
\* tasks given by their ids: a stable sort.
RECURSIVE SortByPriorityDue(_, _)
SortByPriorityDue(task_map, ids) ==
    IF ids = <<>> THEN <<>>
    ELSE LET n == Len(ids)
             head == SortByPriorityDue(task_map, SubSeq(ids, 1, n - 1))
             k == Cardinality({i \in 1..Len(head) :
                                  KeyLE(task_map[head[i]], task_map[ids[n]])})
         IN SubSeq(head, 1, k) \o <<ids[n]>> \o SubSeq(head, k + 1, Len(head))

\* [task for task in self.tasks.values() if task.assigned_to == agent]
AssignedTo(task_map, keys, agent) ==
    LET Mine(id) == task_map[id].assigned_to = agent
    IN SelectSeq(keys, Mine)

\* The schedule optimize_schedule builds: a list for each agent of the
\* roster. The lists hold the Task objects of the store, here their ids.
BuildSchedule(task_map, keys, agent_list) ==
    [keys |-> agent_list,
     lists |-> [a \in Range(agent_list) |->
                   SortByPriorityDue(task_map, AssignedTo(task_map, keys, a))]]

\* get_agent_schedule(agent_id): self.current_schedule.get(agent_id, [])
GetAgentSchedule(agent_id) ==
    IF agent_id \in DOMAIN current_schedule.lists
    THEN current_schedule.lists[agent_id] ELSE <<>>

\* --------------------------------------------------- CalendarCheckingAgent
\* An event of the calendar: a timed event carries its start and end times,
\* an all-day event its start and end dates (day numbers).
EventStart(e) == IF e.all_day THEN e.start * DayLen ELSE e.start

\* The external events().list(timeMin, timeMax, singleEvents, orderBy =
\* 'startTime'): the events that end after timeMin and start before timeMax,
\* by start time. An all-day event ends, for the provider, at the start of
\* its end date.
EventsList(cal, time_min, time_max) ==
    LET ProviderEnd(e) == IF e.all_day THEN e.end * DayLen ELSE e.end
        Hit(e) == ProviderEnd(e) > time_min /\ EventStart(e) < time_max
    IN SelectSeq(cal, Hit)

\* One event as a busy TimeSlot: an all-day event is taken from T00:00:00
\* of its start date to T23:59:59 of its end date.
BusySlot(e) ==
    IF e.all_day
    THEN [start_time |-> e.start * DayLen,
          end_time |-> e.end * DayLen + (DayLen - 1), is_available |-> FALSE]
    ELSE [start_time |-> e.start, end_time |-> e.end, is_available |-> FALSE]

BusySlots(events) == [i \in 1..Len(events) |-> BusySlot(events[i])]

\* The loop over busy_slots: st holds current_time and available_slots.
RECURSIVE Sweep(_, _, _)
Sweep(busy_slots, i, st) ==
    IF i > Len(busy_slots) THEN st
    ELSE LET b == busy_slots[i]
             found == IF st.current_time < b.start_time
                      THEN Append(st.available_slots,
                                  [start_time |-> st.current_time,
                                   end_time |-> b.start_time, is_available |-> TRUE])
                      ELSE st.available_slots
         IN Sweep(busy_slots, i + 1,
                  [current_time |-> b.end_time, available_slots |-> found])

\* get_availability(start_time, end_time) on the calendar cal.
GetAvailability(cal, start_time, end_time) ==
    LET busy_slots == BusySlots(EventsList(cal, start_time, end_time))
        st == Sweep(busy_slots, 1,
                    [current_time |-> start_time, available_slots |-> <<>>])
    IN IF st.current_time < end_time
       THEN Append(st.available_slots,
                   [start_time |-> st.current_time, end_time |-> end_time,
                    is_available |-> TRUE])
       ELSE st.available_slots

NoSlot == [found |-> FALSE, start_time |-> 0, end_time |-> 0]

\* The first slot of a list that is at least `duration` long, cut to it.
RECURSIVE FirstFit(_, _, _)
FirstFit(available_slots, duration, i) ==
    IF i > Len(available_slots) THEN NoSlot
    ELSE LET slot == available_slots[i]
         IN IF slot.end_time - slot.start_time >= duration
            THEN [found |-> TRUE, start_time |-> slot.start_time,
                  end_time |-> slot.start_time + duration]
            ELSE FirstFit(available_slots, duration, i + 1)

\* find_next_available_slot(duration, start_from) on the calendar cal.
FindNextAvailableSlot(cal, duration, start_from) ==
    FirstFit(GetAvailability(cal, start_from, start_from + LookAhead), duration, 1)

\* ------------------------------------------- specification: task ordering
NoResult == [status |-> "none", order |-> <<>>]

\* The variables of the other components, at rest.
OrderIdle == order_in = <<>> /\ order_out = NoResult

CalIdle ==
    /\ calendar = <<>>
    /\ cal_start = 0
    /\ cal_end = 0
    /\ cal_duration = 0
    /\ avail_out = <<"none">>
    /\ slot_out = <<"none">>

DistIdle ==
    /\ dist_tasks = <<>>
    /\ dist_agents = <<>>
    /\ sorted_tasks = <<>>
    /\ dist_i = 0
    /\ workload = EmptyWorkload(<<>>)
    /\ dist_pc = "idle"

\* SchedulerAgent.__init__, NotificationAgent.__init__; no call made yet.
StoreIdle ==
    /\ tasks = <<>>
    /\ task_keys = <<>>
    /\ agents = <<>>
    /\ current_schedule = EmptySchedule
    /\ notification_queue = <<>>
    /\ ret = [op |-> "none", ok |-> TRUE, again |-> FALSE]

\* Dependency relations with at most MaxEdges edges.
EdgeSets == {E \in SUBSET (TaskIds \X TaskIds) : Cardinality(E) <= MaxEdges}

\* Task lists with distinct ids, in every insertion order.
IdLists == UNION {Perms(S) : S \in SUBSET TaskIds}

DepsOf(E, id) == SetToSeq({e[2] : e \in {x \in E : x[1] = id}})

OrderInit ==
    /\ \E ids \in IdLists : \E E \in EdgeSets :
          /\ \A e \in E : e[1] \in Range(ids)
          /\ order_in = [i \in 1..Len(ids) |->
                            [id |-> ids[i], dependencies |-> DepsOf(E, ids[i])]]
    /\ order_out = NoResult
    /\ CalIdle
    /\ DistIdle
    /\ StoreIdle

OrderTasks ==
    /\ order_out = NoResult
    /\ order_out' = OptimizeTaskSequence(order_in)
    /\ UNCHANGED <<order_in, calVars, distVars, storeVars>>

OrderNext == OrderTasks

SpecOrder == OrderInit /\ [][OrderNext]_vars

\* ------------------------------------------ specification: the calendar
Times == 0..MaxTime

Events ==
    [start : Times, end : Times, all_day : {FALSE}]
        \cup [start : 0..(MaxTime \div DayLen), end : 0..(MaxTime \div DayLen),
              all_day : {TRUE}]

\* Calendars: events that end after they start, listed by start time.
Calendars ==
    {c \in UNION {[1..n -> {e \in Events : e.start < e.end}] : n \in 0..MaxEvents} :
        \A i \in 1..(Len(c) - 1) : EventStart(c[i]) <= EventStart(c[i + 1])}

CalInit ==
    /\ calendar \in Calendars
    /\ cal_start \in Times
    /\ cal_end \in {t \in Times : t > cal_start}
    /\ cal_duration \in 1..MaxDuration
    /\ avail_out = <<"none">>
    /\ slot_out = <<"none">>
    /\ OrderIdle
    /\ DistIdle
    /\ StoreIdle

CallGetAvailability ==
    /\ avail_out = <<"none">>
    /\ avail_out' = <<"returned", GetAvailability(calendar, cal_start, cal_end)>>
    /\ UNCHANGED <<calendar, cal_start, cal_end, cal_duration, slot_out, orderVars, distVars, storeVars>>

CallFindNextAvailableSlot ==
    /\ slot_out = <<"none">>
    /\ slot_out' = <<"returned", FindNextAvailableSlot(calendar, cal_duration, cal_start)>>
    /\ UNCHANGED <<calendar, cal_start, cal_end, cal_duration, avail_out, orderVars, distVars, storeVars>>

CalNext == CallGetAvailability \/ CallFindNextAvailableSlot

SpecCal == CalInit /\ [][CalNext]_vars

\* --------------------------------------- specification: load distribution
AgentIds == 1..MaxAgents

\* Rosters: lists of distinct agent ids, in every order.
Rosters == UNION {Perms(S) : S \in SUBSET AgentIds}

\* Task lists: the tasks task_1 .. task_n, each with a priority.
WeightedTaskLists ==
    UNION {{[i \in 1..n |-> [id |-> i, priority |-> w[i]]] :
               w \in [1..n -> (-1)..MaxWeight]} : n \in 0..MaxTasks}

DistInit ==
    /\ dist_tasks \in WeightedTaskLists
    /\ dist_agents \in Rosters
    /\ sorted_tasks = <<>>
    /\ dist_i = 0
    /\ workload = EmptyWorkload(<<>>)
    /\ dist_pc = "call"
    /\ OrderIdle
    /\ CalIdle
    /\ StoreIdle

\* workload = {...}; sorted_tasks = sorted(...)
DistBegin ==
    /\ dist_pc = "call"
    /\ workload' = EmptyWorkload(dist_agents)
    /\ sorted_tasks' = SortByPriorityDesc(dist_tasks)
    /\ dist_i' = 1
    /\ dist_pc' = "loop"
    /\ UNCHANGED <<dist_tasks, dist_agents, orderVars, calVars, storeVars>>

\* One turn of the loop: the next task goes to the agent min() picks.
DistPlace ==
    /\ dist_pc = "loop"
    /\ dist_i <= Len(sorted_tasks)
    /\ workload.keys # <<>>
    /\ workload' = PlaceTask(workload, sorted_tasks[dist_i])
    /\ dist_i' = dist_i + 1
    /\ UNCHANGED <<dist_tasks, dist_agents, sorted_tasks, dist_pc, orderVars, calVars,
                   storeVars>>

\* min() of an empty sequence: the call ends in the ValueError.
DistRaise ==
    /\ dist_pc = "loop"
    /\ dist_i <= Len(sorted_tasks)
    /\ workload.keys = <<>>
    /\ dist_pc' = "ValueError"
    /\ UNCHANGED <<dist_tasks, dist_agents, sorted_tasks, dist_i, workload,
                   orderVars, calVars, storeVars>>

\* return workload
DistReturn ==
    /\ dist_pc = "loop"
    /\ dist_i > Len(sorted_tasks)
    /\ dist_pc' = "returned"
    /\ UNCHANGED <<dist_tasks, dist_agents, sorted_tasks, dist_i, workload,
                   orderVars, calVars, storeVars>>

DistNext == DistBegin \/ DistPlace \/ DistRaise \/ DistReturn

SpecDist == DistInit /\ [][DistNext]_vars

\* ------------------------------- specification: the store and its callers
StoreIds == 1..MaxStored

Priorities == 0..MaxPriority

DueDates == 1..MaxDue

Statuses == {"pending", "in_progress"}

\* What the last call was: `again` tells an optimize_schedule call that
\* follows another with no call in between.
Returned(op, ok) == [op |-> op, ok |-> ok, again |-> FALSE]

\* SchedulerOrchestrator.initialize_system(agents)
InitializeSystem(agent_list) ==
    /\ agents' = agent_list
    /\ ret' = Returned("initialize_system", TRUE)
    /\ UNCHANGED <<tasks, task_keys, current_schedule, notification_queue,
                   orderVars, calVars, distVars>>

\* SchedulerAgent.add_task(task)
AddTask(task) ==
    LET r == AddTaskResult(tasks, task_keys, task)
    IN /\ tasks' = r.tasks
       /\ task_keys' = r.task_keys
       /\ ret' = Returned("add_task", r.ok)
       /\ UNCHANGED <<agents, current_schedule, notification_queue,
                      orderVars, calVars, distVars>>

\* SchedulerOrchestrator.create_task(title, description, priority,
\* due_date, dependencies): the due date is made timezone-aware, an absolute
\* time; the id is "task_<number of tasks + 1>".
CreateTask(priority, due_date, dependencies) ==
    LET task == [id |-> Len(task_keys) + 1, priority |-> priority,
                 due_date |-> due_date, status |-> "pending",
                 assigned_to |-> NoAgent, dependencies |-> dependencies,
                 scheduled_start |-> NoTime, scheduled_end |-> NoTime]
        r == AddTaskResult(tasks, task_keys, task)
    IN /\ Len(task_keys) < MaxStored
       /\ tasks' = r.tasks
       /\ task_keys' = r.task_keys
       /\ ret' = Returned("create_task", r.ok)
       /\ UNCHANGED <<agents, current_schedule, notification_queue,
                      orderVars, calVars, distVars>>

\* assign_task with the test on the roster left out.
AssignTaskAnyAgent(task_id, agent_id) ==
    /\ IF task_id \notin DOMAIN tasks
       THEN /\ ret' = Returned("assign_task", FALSE)
            /\ UNCHANGED tasks
       ELSE /\ tasks' = [tasks EXCEPT ![task_id].assigned_to = agent_id]
            /\ ret' = Returned("assign_task", TRUE)
    /\ UNCHANGED <<task_keys, agents, current_schedule, notification_queue,
                   orderVars, calVars, distVars>>

\* SchedulerAgent.assign_task(task_id, agent_id)
AssignTask(task_id, agent_id) ==
    /\ IF task_id \notin DOMAIN tasks \/ agent_id \notin Range(agents)
       THEN /\ ret' = Returned("assign_task", FALSE)
            /\ UNCHANGED tasks
       ELSE /\ tasks' = [tasks EXCEPT ![task_id].assigned_to = agent_id]
            /\ ret' = Returned("assign_task", TRUE)
    /\ UNCHANGED <<task_keys, agents, current_schedule, notification_queue,
                   orderVars, calVars, distVars>>

\* SchedulerAgent.update_task_status(task_id, status)
UpdateTaskStatus(task_id, status) ==
    /\ IF task_id \notin DOMAIN tasks
       THEN /\ ret' = Returned("update_task_status", FALSE)
            /\ UNCHANGED tasks
       ELSE /\ tasks' = [tasks EXCEPT ![task_id].status = status]
            /\ ret' = Returned("update_task_status", TRUE)
    /\ UNCHANGED <<task_keys, agents, current_schedule, notification_queue,
                   orderVars, calVars, distVars>>

\* SchedulerOrchestrator.update_task_status(task_id, new_status): the
\* store's update, then the status_update notification to the task's agent
\* and the e-mail, which changes nothing here and whose result is dropped.
OrchUpdateTaskStatus(task_id, new_status) ==
    /\ UNCHANGED <<orderVars, calVars, distVars>>
    /\ IF task_id \notin DOMAIN tasks
       THEN
         /\ ret' = Returned("orchestrator.update_task_status", FALSE)
         /\ UNCHANGED <<tasks, task_keys, agents, current_schedule, notification_queue>>
       ELSE
         /\ Len(notification_queue) < MaxQueue
         /\ tasks' = [tasks EXCEPT ![task_id].status = new_status]
         /\ notification_queue' =
                Append(notification_queue,
                       [type |-> "status_update",
                        recipient |-> tasks[task_id].assigned_to,
                        priority |-> "normal", related_task |-> NoTask,
                        status |-> "pending"])
         /\ ret' = Returned("orchestrator.update_task_status", TRUE)
         /\ UNCHANGED <<task_keys, agents, current_schedule>>

\* optimize_schedule building on the stored schedule instead of an empty
\* one: each agent's tasks are added to the list the agent already has.
OptimizeScheduleOnTop ==
    LET new == BuildSchedule(tasks, task_keys, agents)
    IN /\ current_schedule' =
             [keys |-> agents,
              lists |-> [a \in Range(agents) |->
                            GetAgentSchedule(a) \o new.lists[a]]]
       /\ ret' = [op |-> "optimize_schedule", ok |-> TRUE,
                  again |-> (ret.op = "optimize_schedule")]
       /\ UNCHANGED <<tasks, task_keys, agents, notification_queue,
                      orderVars, calVars, distVars>>

\* SchedulerAgent.optimize_schedule()
OptimizeSchedule ==
    /\ current_schedule' = BuildSchedule(tasks, task_keys, agents)
    /\ ret' = [op |-> "optimize_schedule", ok |-> TRUE,
               again |-> (ret.op = "optimize_schedule")]
    /\ UNCHANGED <<tasks, task_keys, agents, notification_queue,
                   orderVars, calVars, distVars>>

\* list(self.scheduler_agent.tasks.values())
AllTasks(task_map, keys) == [i \in 1..Len(keys) |-> task_map[keys[i]]]

\* assign_task(task_id, agent_id) on the task map: the map after the call.
AssignTaskResult(task_map, agent_list, task_id, agent_id) ==
    IF task_id \notin DOMAIN task_map \/ agent_id \notin Range(agent_list)
    THEN task_map
    ELSE [task_map EXCEPT ![task_id].assigned_to = agent_id]

\* send_task_assignment_notification(task, agent): the notification that
\* create_notification appends to the queue.
AssignmentNotification(task, agent) ==
    [type |-> "task_assignment", recipient |-> agent,
     priority |-> IF task.priority > 2 THEN "high" ELSE "normal",
     related_task |-> task.id, status |-> "pending"]

\* The pairs the loops would visit if the inner one stopped after the
\* first task of each agent.
RECURSIVE DistributionItemsFirstOnly(_, _)
DistributionItemsFirstOnly(load, i) ==
    IF i > Len(load.keys) THEN <<>>
    ELSE LET agent == load.keys[i]
         IN (IF load.lists[agent] = <<>> THEN <<>>
             ELSE <<[agent |-> agent, task |-> load.lists[agent][1]]>>)
               \o DistributionItemsFirstOnly(load, i + 1)

\* The (agent, task) pairs of task_distribution.items(), in the order the
\* two nested loops of assign_and_optimize_tasks visit them.
RECURSIVE DistributionItems(_, _)
DistributionItems(load, i) ==
    IF i > Len(load.keys) THEN <<>>
    ELSE LET agent == load.keys[i]
         IN [j \in 1..Len(load.lists[agent]) |->
                [agent |-> agent, task |-> load.lists[agent][j]]]
               \o DistributionItems(load, i + 1)

\* The two nested loops: each pair is assigned, then notified.
RECURSIVE ApplyAssignments(_, _, _, _)
ApplyAssignments(task_map, queue, agent_list, items) ==
    IF items = <<>> THEN [tasks |-> task_map, notification_queue |-> queue]
    ELSE LET it == Head(items)
         IN ApplyAssignments(
                AssignTaskResult(task_map, agent_list, it.task.id, it.agent),
                Append(queue, AssignmentNotification(it.task, it.agent)),
                agent_list, Tail(items))

\* SchedulerOrchestrator.assign_and_optimize_tasks(): analyze_workload
\* reads the tasks and changes nothing; the ValueError of the distribution
\* leaves the call before anything is assigned.
AssignAndOptimizeTasks ==
    LET all_tasks == AllTasks(tasks, task_keys)
        task_distribution == SuggestTaskRedistribution(all_tasks, agents)
        applied == ApplyAssignments(tasks, notification_queue, agents,
                                    DistributionItems(task_distribution.workload, 1))
    IN /\ UNCHANGED <<task_keys, agents, orderVars, calVars, distVars>>
       /\ IF task_distribution.status = "ValueError"
          THEN /\ ret' = Returned("assign_and_optimize_tasks", FALSE)
               /\ UNCHANGED <<tasks, current_schedule, notification_queue>>
          ELSE /\ Len(notification_queue) + Len(task_keys) <= MaxPending
               /\ tasks' = applied.tasks
               /\ notification_queue' = applied.notification_queue
               /\ current_schedule' = BuildSchedule(applied.tasks, task_keys, agents)
               /\ ret' = Returned("assign_and_optimize_tasks", TRUE)

\* timedelta(hours = 2 * task.priority), in ticks.
EstimatedDuration(task) == 2 * task.priority

\* SchedulerOrchestrator.find_available_time_for_task(task) for a task of
\* the store, the clock reading `now`: the event dict is built and dropped,
\* the calendar is not written.
FindAvailableTimeForTask(task_id, now) ==
    /\ task_id \in DOMAIN tasks
    /\ LET available_slot ==
               FindNextAvailableSlot(calendar, EstimatedDuration(tasks[task_id]), now)
       IN /\ tasks' = IF available_slot.found
                      THEN [tasks EXCEPT
                               ![task_id].scheduled_start = available_slot.start_time,
                               ![task_id].scheduled_end = available_slot.end_time]
                      ELSE tasks
          /\ ret' = Returned("find_available_time_for_task", available_slot.found)
    /\ UNCHANGED <<task_keys, agents, current_schedule, notification_queue,
                   orderVars, calVars, distVars>>

\* The tasks a caller hands to add_task.
NewTasks ==
    [id : StoreIds, priority : Priorities, due_date : DueDates,
     status : {"pending"}, assigned_to : {NoAgent}, dependencies : {<<>>},
     scheduled_start : {NoTime}, scheduled_end : {NoTime}]

\* The dependency lists a caller hands to create_task: the store keeps the
\* list on the task and never reads it.
DependencyLists == {<<>>}

\* The rosters a caller hands to initialize_system: the store never reads
\* the order of the roster, so each set of agents is listed one way.
StoreRosters == {SetToSeq(S) : S \in SUBSET AgentIds}

Init ==
    /\ StoreIdle
    /\ OrderIdle
    /\ CalIdle
    /\ DistIdle

\* The calls on the SchedulerAgent.
Next ==
    \/ \E agent_list \in StoreRosters : InitializeSystem(agent_list)
    \/ \E task \in NewTasks : AddTask(task)
    \/ \E p \in Priorities, d \in DueDates, deps \in DependencyLists :
          CreateTask(p, d, deps)
    \/ \E t \in StoreIds, a \in AgentIds : AssignTask(t, a)
    \/ \E t \in StoreIds, st \in Statuses : UpdateTaskStatus(t, st)
    \/ OptimizeSchedule

Spec == Init /\ [][Next]_vars

\* ------------------- specification: the calls that fail, orchestrator's too
\* The tasks handed to add_task here all have the earliest due date: the
\* calls that fail read the id of a task and the roster, never a due date.
CallTasks == {task \in NewTasks : task.due_date = Min(DueDates)}

\* The calls of Next, and the orchestrator's update_task_status with its
\* notification.
CallsNext ==
    \/ \E agent_list \in StoreRosters : InitializeSystem(agent_list)
    \/ \E task \in CallTasks : AddTask(task)
    \/ \E p \in Priorities, deps \in DependencyLists :
          CreateTask(p, Min(DueDates), deps)
    \/ \E t \in StoreIds, a \in AgentIds : AssignTask(t, a)
    \/ \E t \in StoreIds, st \in Statuses : UpdateTaskStatus(t, st)
    \/ \E t \in StoreIds, st \in Statuses : OrchUpdateTaskStatus(t, st)
    \/ OptimizeSchedule

SpecCalls == Init /\ [][CallsNext]_vars

\* ---------------------------- specification: the orchestrator's scheduling
\* The dependency lists handed to create_task and add_task: none, or one
\* task id.
OrchDependencyLists == {<<>>} \cup {<<d>> : d \in StoreIds}

\* The tasks handed to add_task: those of CallTasks, with dependencies.
OrchTasks ==
    {[task EXCEPT !.dependencies = deps] :
        task \in CallTasks, deps \in OrchDependencyLists}

OrchNext ==
    \/ \E agent_list \in Rosters : InitializeSystem(agent_list)
    \/ \E task \in OrchTasks : AddTask(task)
    \/ \E p \in Priorities, deps \in OrchDependencyLists :
          CreateTask(p, Min(DueDates), deps)
    \/ \E t \in StoreIds, st \in Statuses : OrchUpdateTaskStatus(t, st)
    \/ AssignAndOptimizeTasks

SpecOrch == Init /\ [][OrchNext]_vars

\* ------------------------------ specification: reserving a calendar slot
\* The calendars of at most one event.
ReserveCalendars == {c \in Calendars : Len(c) <= 1}

ReserveInit ==
    /\ StoreIdle
    /\ OrderIdle
    /\ DistIdle
    /\ calendar \in ReserveCalendars
    /\ cal_start = 0
    /\ cal_end = 0
    /\ cal_duration = 0
    /\ avail_out = <<"none">>
    /\ slot_out = <<"none">>

ReserveNext ==
    \/ \E p \in Priorities, deps \in DependencyLists :
          CreateTask(p, Min(DueDates), deps)
    \/ \E t \in StoreIds, now \in Times : FindAvailableTimeForTask(t, now)

SpecReserve == ReserveInit /\ [][ReserveNext]_vars

\* ============================================================ properties
\* ------------------------------------------------------ dependency ordering
\* The dependency relation of a task list: <<t, d>> when t lists d.
DependsOn(task_list) ==
    {<<task_list[i].id, d>> : i \in 1..Len(task_list), d \in TaskIds}
        \cap UNION {{<<task_list[i].id, d>> : d \in Range(task_list[i].dependencies)} :
                       i \in 1..Len(task_list)}

IdsOf(task_list) == {task_list[i].id : i \in 1..Len(task_list)}

\* The dependency ids that name no task of the list.
MissingIds(task_list) == {e[2] : e \in DependsOn(task_list)} \ IdsOf(task_list)

\* Everything reachable from the set S along R, S included.
RECURSIVE ReachableFrom(_, _)
ReachableFrom(R, S) ==
    LET N == S \cup {e[2] : e \in {x \in R : x[1] \in S}}
    IN IF N = S THEN S ELSE ReachableFrom(R, N)

\* Some task depends, directly or through others, on itself.
HasCycle(task_list) ==
    LET R == DependsOn(task_list)
    IN \E e \in R : e[1] \in ReachableFrom(R, {e[2]})

\* C1: for an acyclic task list whose dependencies all exist, the returned
\* order holds every task id exactly once and every dependency of a task
\* strictly before the task.
C1_DependenciesFirst ==
    (order_out.status # "none" /\ ~HasCycle(order_in) /\ MissingIds(order_in) = {}) =>
        /\ order_out.status = "ok"
        /\ Len(order_out.order) = Len(order_in)
        /\ Range(order_out.order) = IdsOf(order_in)
        /\ \A e \in DependsOn(order_in) :
              IndexOf(order_out.order, e[2]) < IndexOf(order_out.order, e[1])

\* C2: a task list whose dependency relation has a cycle ends in the
\* failure, and no order is returned.
C2_CycleRaises ==
    (order_out.status # "none" /\ HasCycle(order_in)) =>
        (order_out.status = "ValueError" /\ order_out.order = <<>>)

\* A cycle A -> B -> A that the traversal reaches through a third task,
\* which is first in insertion order, and the failure it ended in.
C2_Witness ==
    /\ order_out.status = "ValueError"
    /\ Len(order_in) = 3
    /\ \E a, b \in IdsOf(order_in) :
          /\ a # b /\ a # order_in[1].id /\ b # order_in[1].id
          /\ DependsOn(order_in) = {<<order_in[1].id, a>>, <<a, b>>, <<b, a>>}

\* C3: a dependency id that names no task is reported as an
\* UnknownDependency failure and never appears in a returned order.
C3_UnknownDependencyReported ==
    (order_out.status # "none" /\ MissingIds(order_in) # {}) =>
        /\ order_out.status = "UnknownDependency"
        /\ Range(order_out.order) \cap MissingIds(order_in) = {}

\* ------------------------------------------------------------ availability
\* No busy slot covers the tick [p, p + 1).
FreeTick(busy_slots, p) ==
    \A i \in 1..Len(busy_slots) :
        ~(busy_slots[i].start_time <= p /\ p < busy_slots[i].end_time)

\* The maximal intervals <<s, e>> of [window_start, window_end) that no busy
\* slot covers.
MaximalFree(busy_slots, window_start, window_end) ==
    {f \in (window_start..window_end) \X (window_start..window_end) :
        /\ f[1] < f[2]
        /\ \A p \in f[1]..(f[2] - 1) : FreeTick(busy_slots, p)
        /\ f[1] = window_start \/ ~FreeTick(busy_slots, f[1] - 1)
        /\ f[2] = window_end \/ ~FreeTick(busy_slots, f[2])}

\* The interval [s, e) meets no busy slot.
MeetsNoBusy(busy_slots, s, e) ==
    \A i \in 1..Len(busy_slots) :
        busy_slots[i].end_time <= s \/ e <= busy_slots[i].start_time

\* C5: get_availability returns, in chronological order and pairwise
\* disjoint, exactly the maximal free intervals of the window; none of them
\* meets a busy interval.
C5_ExactFreeIntervals ==
    avail_out[1] = "returned" =>
        LET slots == avail_out[2]
            busy_slots == BusySlots(EventsList(calendar, cal_start, cal_end))
        IN /\ {<<slots[i].start_time, slots[i].end_time>> : i \in 1..Len(slots)}
                 = MaximalFree(busy_slots, cal_start, cal_end)
           /\ \A i \in 1..(Len(slots) - 1) : slots[i].end_time <= slots[i + 1].start_time
           /\ \A i \in 1..Len(slots) :
                 MeetsNoBusy(busy_slots, slots[i].start_time, slots[i].end_time)

\* C6: for a duration > 0, find_next_available_slot returns the first free
\* interval of the window that is at least that long, cut to the duration,
\* and nothing exactly when there is none; the slot lies in the window and
\* meets no busy interval.
C6_FirstFittingFreeInterval ==
    (slot_out[1] = "returned" /\ cal_duration > 0) =>
        LET slot == slot_out[2]
            window_end == cal_start + LookAhead
            busy_slots == BusySlots(EventsList(calendar, cal_start, window_end))
            fits == {f \in MaximalFree(busy_slots, cal_start, window_end) :
                        f[2] - f[1] >= cal_duration}
        IN IF fits = {} THEN ~slot.found
           ELSE /\ slot.found
                /\ slot.start_time = Min({f[1] : f \in fits})
                /\ slot.end_time = slot.start_time + cal_duration
                /\ cal_start <= slot.start_time /\ slot.end_time <= window_end
                /\ MeetsNoBusy(busy_slots, slot.start_time, slot.end_time)

\* --------------------------------------------------------- distribution
Load(load, a) == SumPriority(load.lists[a])

\* C7: the tasks are taken in descending weight, each exactly once; a task
\* goes, when it is placed, to the agent of least cumulative weight, the
\* first such in roster order; the tasks placed before stay where they are.
\* The call as a whole is the loop of these steps, and weights 5, 3, 3 over
\* two agents end as {5} and {3, 3}.
C7_GreedyPlacement ==
    [][/\ (dist_pc = "call" /\ dist_pc' = "loop") =>
            /\ Len(sorted_tasks') = Len(dist_tasks)
            /\ Range(sorted_tasks') = Range(dist_tasks)
            /\ \A i \in 1..(Len(sorted_tasks') - 1) :
                  sorted_tasks'[i].priority >= sorted_tasks'[i + 1].priority
       /\ (dist_i' = dist_i + 1 /\ dist_pc = "loop") =>
            \E a \in Range(dist_agents) :
                /\ workload'.lists[a] = Append(workload.lists[a], sorted_tasks[dist_i])
                /\ \A b \in Range(dist_agents) \ {a} :
                      /\ workload'.lists[b] = workload.lists[b]
                      /\ Load(workload, a) <= Load(workload, b)
                      /\ IndexOf(dist_agents, b) < IndexOf(dist_agents, a)
                            => Load(workload, a) < Load(workload, b)
       /\ dist_pc' = "returned" =>
            /\ SuggestTaskRedistribution(dist_tasks, dist_agents)
                  = [status |-> "ok", workload |-> workload']
            /\ (Len(dist_agents) = 2 /\ Len(dist_tasks) = 3
                    /\ {dist_tasks[i].priority : i \in 1..3} = {5, 3}
                    /\ Cardinality({i \in 1..3 : dist_tasks[i].priority = 3}) = 2) =>
                  /\ Load(workload', dist_agents[1]) = 5
                  /\ Len(workload'.lists[dist_agents[1]]) = 1
                  /\ Load(workload', dist_agents[2]) = 6
                  /\ Len(workload'.lists[dist_agents[2]]) = 2
      ]_vars

\* The call on weights 3, 5, 3 over the roster <<2, 1>> has returned: the
\* task of weight 5 went, on a tie of the two empty agents, to the first
\* agent of the roster, and the two of weight 3 to the second.
C7_Witness ==
    /\ dist_pc = "returned"
    /\ dist_agents = <<2, 1>>
    /\ Len(dist_tasks) = 3
    /\ dist_tasks[1].priority = 3 /\ dist_tasks[2].priority = 5 /\ dist_tasks[3].priority = 3
    /\ workload.lists[2] = <<dist_tasks[2]>>
    /\ workload.lists[1] = <<dist_tasks[1], dist_tasks[3]>>

\* C11: suggest_task_redistribution on an empty roster never returns: for
\* every task list, the empty one too, the call ends in the failure.
C11_EmptyRosterFails ==
    dist_agents = <<>> => dist_pc # "returned"

\* ------------------------------------------------------------- the store
\* C4: an add of a task whose id is in the store returns False and leaves
\* the task map as it was: the stored record keeps every field and no entry
\* comes or goes. The same holds of create_task when the id it makes up is
\* taken.
C4_DuplicateAddRejected ==
    [][/\ ret'.op = "add_task" =>
            \A task \in NewTasks :
               (task.id \in DOMAIN tasks /\ AddTask(task)) =>
                   (~ret'.ok /\ tasks' = tasks /\ task_keys' = task_keys)
       /\ ret'.op = "create_task" =>
            \A p \in Priorities, d \in DueDates, deps \in DependencyLists :
               ((Len(task_keys) + 1) \in DOMAIN tasks /\ CreateTask(p, d, deps)) =>
                   (~ret'.ok /\ tasks' = tasks /\ task_keys' = task_keys)
      ]_vars

\* An add_task has just returned False, with another task in the store
\* beside the one whose id was taken.
C4_Witness ==
    /\ ret.op = "add_task" /\ ~ret.ok
    /\ Len(task_keys) = 2

\* C8: when optimize_schedule has returned, every agent of the roster has
\* a list; it holds exactly the tasks assigned to that agent, each once,
\* and of two consecutive tasks the first has the lower priority number, or
\* the same and a due date that is not later.
C8_ScheduleSorted ==
    ret.op = "optimize_schedule" =>
        /\ current_schedule.keys = agents
        /\ \A a \in Range(agents) :
              LET l == current_schedule.lists[a]
              IN /\ Range(l) = {id \in DOMAIN tasks : tasks[id].assigned_to = a}
                 /\ Len(l) = Cardinality(Range(l))
                 /\ \A i \in 1..(Len(l) - 1) :
                       \/ tasks[l[i]].priority < tasks[l[i + 1]].priority
                       \/ /\ tasks[l[i]].priority = tasks[l[i + 1]].priority
                          /\ tasks[l[i]].due_date <= tasks[l[i + 1]].due_date

\* optimize_schedule has returned a list of two tasks in which the first
\* has the lower priority number and the later due date, and was added to
\* the store after the second.
C8_Witness ==
    /\ ret.op = "optimize_schedule"
    /\ \E a \in Range(agents) :
          LET l == current_schedule.lists[a]
          IN /\ Len(l) = 2
             /\ tasks[l[1]].priority < tasks[l[2]].priority
             /\ tasks[l[1]].due_date > tasks[l[2]].due_date
             /\ IndexOf(task_keys, l[1]) > IndexOf(task_keys, l[2])

\* C9: an optimize_schedule call that follows another with no call in
\* between returns, and stores, the schedule the first returned.
C9_OptimizeIdempotent ==
    [][(ret.op = "optimize_schedule" /\ ret'.op = "optimize_schedule") =>
           current_schedule' = current_schedule]_vars

\* The second of two optimize_schedule calls in a row has returned, with
\* two tasks in one agent's list.
C9_Witness ==
    /\ ret.op = "optimize_schedule" /\ ret.again
    /\ \E a \in Range(agents) : Len(current_schedule.lists[a]) = 2

\* C10: assign_task with a task id that is not in the store or an agent
\* that is not in the roster, and update_task_status (the store's and the
\* orchestrator's) with a task id that is not in the store, return False
\* and leave the task map, the schedule and the notification queue as they
\* were.
C10_FailedCallsChangeNothing ==
    [][/\ ret'.op = "assign_task" =>
            \A t \in StoreIds, a \in AgentIds :
               ((t \notin DOMAIN tasks \/ a \notin Range(agents)) /\ AssignTask(t, a)) =>
                   (~ret'.ok /\ UNCHANGED <<tasks, task_keys, current_schedule,
                                            notification_queue>>)
       /\ ret'.op \in {"update_task_status", "orchestrator.update_task_status"} =>
            \A t \in StoreIds, st \in Statuses :
               (t \notin DOMAIN tasks
                    /\ (UpdateTaskStatus(t, st) \/ OrchUpdateTaskStatus(t, st))) =>
                   (~ret'.ok /\ UNCHANGED <<tasks, task_keys, current_schedule,
                                            notification_queue>>)
      ]_vars

\* An assign_task has just returned False on a store that holds a task
\* assigned to an agent and a schedule listing it.
C10_Witness ==
    /\ ret.op = "assign_task" /\ ~ret.ok
    /\ \E id \in DOMAIN tasks :
          /\ tasks[id].assigned_to \in Range(agents)
          /\ GetAgentSchedule(tasks[id].assigned_to) = <<id>>

\* --------------------------------------------------------- the orchestrator
\* Every dependency id on a stored task names a stored task, and no stored
\* task depends, directly or through others, on itself.
DependenciesSound(task_map, keys) ==
    /\ \A id \in DOMAIN task_map : Range(task_map[id].dependencies) \subseteq DOMAIN task_map
    /\ ~HasCycle(AllTasks(task_map, keys))

\* C12: after any sequence of create_task and add_task calls, every
\* dependency id recorded on a stored task names a task of the store, and
\* the dependency relation over the stored tasks has no cycle.
C12_StoredDependenciesSound ==
    DependenciesSound(tasks, task_keys)

\* C13: every stored task with both scheduled_start and scheduled_end set
\* has its start strictly before its end, whatever its priority.
C13_ReservationHasLength ==
    \A id \in DOMAIN tasks :
        (tasks[id].scheduled_start # NoTime /\ tasks[id].scheduled_end # NoTime) =>
            tasks[id].scheduled_start < tasks[id].scheduled_end

\* C14: at any time get_agent_schedule(agent) lists exactly the tasks
\* whose assigned_to is that agent, each once; none when there is none.
C14_AgentScheduleIsView ==
    \A a \in AgentIds :
        LET l == GetAgentSchedule(a)
        IN /\ Range(l) = {id \in DOMAIN tasks : tasks[id].assigned_to = a}
           /\ Len(l) = Cardinality(Range(l))

\* C15: in every list assign_and_optimize_tasks returns, on a store whose
\* dependencies all exist and have no cycle, a task that depends on another
\* task of the same list comes after it.
C15_DependenciesFirstPerAgent ==
    (ret.op = "assign_and_optimize_tasks" /\ ret.ok
         /\ DependenciesSound(tasks, task_keys)) =>
        \A a \in Range(agents) :
            LET l == current_schedule.lists[a]
            IN \A t \in Range(l) :
                  \A d \in Range(tasks[t].dependencies) \cap Range(l) :
                      IndexOf(l, d) < IndexOf(l, t)

\* C16: an assign_and_optimize_tasks that returns on a roster with an agent
\* leaves every stored task assigned to an agent of the roster and listed
\* exactly once over all the lists, in the list of its agent; the lists
\* hold stored tasks only; and the call has added to the end of the queue
\* one task_assignment notification for each stored task, addressed to the
\* task's agent.
C16_AssignmentPartitions ==
    [][(ret'.op = "assign_and_optimize_tasks" /\ ret'.ok /\ agents # <<>>) =>
          LET was == Len(notification_queue)
              added == SubSeq(notification_queue', was + 1, Len(notification_queue'))
              Count(l, id) == Cardinality({i \in 1..Len(l) : l[i] = id})
          IN /\ current_schedule'.keys = agents'
             /\ \A a \in Range(agents') :
                   Range(current_schedule'.lists[a]) \subseteq DOMAIN tasks'
             /\ \A id \in DOMAIN tasks' :
                   /\ tasks'[id].assigned_to \in Range(agents')
                   /\ \A a \in Range(agents') :
                         Count(current_schedule'.lists[a], id)
                             = IF a = tasks'[id].assigned_to THEN 1 ELSE 0
                   /\ Cardinality({i \in 1..Len(added) :
                                      /\ added[i].type = "task_assignment"
                                      /\ added[i].related_task = id
                                      /\ added[i].recipient = tasks'[id].assigned_to}) = 1
             /\ Len(added) = Cardinality(DOMAIN tasks')
             /\ SubSeq(notification_queue', 1, was) = notification_queue
      ]_vars

\* assign_and_optimize_tasks has returned on two tasks it gave to two
\* agents, with notifications of an earlier call still in the queue.
C16_Witness ==
    /\ ret.op = "assign_and_optimize_tasks" /\ ret.ok
    /\ Len(agents) = 2 /\ Len(task_keys) = 2
    /\ tasks[1].assigned_to # tasks[2].assigned_to
    /\ GetAgentSchedule(tasks[1].assigned_to) = <<1>>
    /\ GetAgentSchedule(tasks[2].assigned_to) = <<2>>
    /\ Len(notification_queue) >= 3

====
